---- MODULE Spec2Model ----
(***************************************************************************)
(* Model of IdealLed.py: the State value type with its two decoders, the   *)
(* Device callbacks, the reference-counted connection manager              *)
(* Device.connect() running as asyncio tasks on one event loop, and        *)
(* device_filter as the discovery flow of config_flow.py calls it.         *)
(*                                                                         *)
(* Bytes are integers 0..255, byte strings are sequences of bytes.  Code   *)
(* between two awaits runs atomically (one event loop), so every action    *)
(* is one such segment of a coroutine, or one synchronous callback.        *)
(***************************************************************************)
EXTENDS Integers, Sequences, FiniteSets, TLC

\* Number of tasks that call Device.connect() (each once).
NumTasks == 2

Tasks == 1..NumTasks

\* The value None of Python.
None == 0

(***************************************************************************)
(* Byte strings                                                            *)
(***************************************************************************)

\* ord() of the ASCII characters the payloads use.
Ord(c) ==
    CASE c = "0" -> 48 [] c = "1" -> 49 [] c = "2" -> 50 [] c = "3" -> 51
      [] c = "4" -> 52 [] c = "5" -> 53 [] c = "6" -> 54 [] c = "7" -> 55
      [] c = "8" -> 56 [] c = "9" -> 57
      [] c = "A" -> 65 [] c = "C" -> 67 [] c = "D" -> 68 [] c = "F" -> 70
      [] c = "H" -> 72 [] c = "J" -> 74 [] c = "K" -> 75 [] c = "L" -> 76
      [] c = "N" -> 78 [] c = "O" -> 79 [] c = "R" -> 82
      [] c = " " -> 32 [] c = "+" -> 43 [] c = "-" -> 45 [] c = "_" -> 95
      [] c = "x" -> 120

\* b"..." literal given as a tuple of one-character strings.
Bytes(chars) == [i \in 1..Len(chars) |-> Ord(chars[i])]

\* Python slice data[a:b] (0-based, clipped to the length).
Slice(data, a, b) ==
    IF a >= Len(data) \/ b <= a THEN <<>>
    ELSE SubSeq(data, a + 1, IF b < Len(data) THEN b ELSE Len(data))

\* Python bytes.startswith.
StartsWith(data, prefix) == Slice(data, 0, Len(prefix)) = prefix

\* COMMAND_LIGHT_ON_HEX / COMMAND_LIGHT_OFF_HEX (the hex text itself).
COMMAND_LIGHT_ON_HEX == "84dd5042374150897ac82f39110968a8"
COMMAND_LIGHT_OFF_HEX == "79d1dba40919c246a8580ae7d11b7884"

\* ANNOUNCE_PREFIX = b"HOODFJAR"
ANNOUNCE_PREFIX == Bytes(<<"H", "O", "O", "D", "F", "J", "A", "R">>)

\* Device._keycode, the default b"1234" of Device.__init__.
Keycode == Bytes(<<"1", "2", "3", "4">>)

(***************************************************************************)
(* int(str) of Python on an ASCII string                                   *)
(***************************************************************************)

IsDigit(c) == c \in 48..57

\* Characters int() strips: str.isspace() on ASCII.
IsSpace(c) == c \in {9, 10, 11, 12, 13, 28, 29, 30, 31, 32}

RECURSIVE LStrip(_)
LStrip(s) == IF s # <<>> /\ IsSpace(Head(s)) THEN LStrip(Tail(s)) ELSE s

RECURSIVE RStrip(_)
RStrip(s) ==
    IF s # <<>> /\ IsSpace(s[Len(s)]) THEN RStrip(SubSeq(s, 1, Len(s) - 1)) ELSE s

\* Digits with single underscores between them, as int() accepts.
DigitsOk(s) ==
    /\ s # <<>>
    /\ IsDigit(s[1])
    /\ IsDigit(s[Len(s)])
    /\ \A i \in 1..Len(s) : IsDigit(s[i]) \/ s[i] = 95
    /\ \A i \in 1..(Len(s) - 1) : ~(s[i] = 95 /\ s[i + 1] = 95)

RECURSIVE DigitsValue(_, _)
DigitsValue(s, acc) ==
    IF s = <<>> THEN acc
    ELSE IF Head(s) = 95 THEN DigitsValue(Tail(s), acc)
    ELSE DigitsValue(Tail(s), 10 * acc + (Head(s) - 48))

\* int(s): [ok |-> TRUE, val |-> n], or ok = FALSE for ValueError.
PyInt(s) ==
    LET t == RStrip(LStrip(s))
        signed == t # <<>> /\ t[1] \in {43, 45}
        body == IF signed THEN Tail(t) ELSE t
    IN  IF DigitsOk(body)
        THEN [ok |-> TRUE,
              val |-> IF signed /\ t[1] = 45 THEN 0 - DigitsValue(body, 0)
                      ELSE DigitsValue(body, 0)]
        ELSE [ok |-> FALSE, val |-> 0]

(***************************************************************************)
(* State (frozen dataclass) and its decoders                               *)
(***************************************************************************)

\* State(): the defaults of the dataclass.
DefaultState ==
    [light_on |-> FALSE, after_cooking_fan_speed |-> 0, after_cooking_on |-> FALSE,
     carbon_filter_available |-> FALSE, fan_speed |-> 0, grease_filter_full |-> FALSE,
     carbon_filter_full |-> FALSE, dim_level |-> 0, periodic_venting |-> 0,
     periodic_venting_on |-> FALSE, rssi |-> 0]

\* Faulty variant of _range_check_dim: the upper limit left out.
_range_check_dim_NoUpper(value, fallback) ==
    IF value >= 0 THEN value ELSE fallback

_range_check_dim(value, fallback) ==
    IF value >= 0 /\ value <= 100 THEN value ELSE fallback

\* Faulty variant of _range_check_period: the upper limit 60 taken as valid.
_range_check_period_Inclusive(value, fallback) ==
    IF value >= 0 /\ value <= 60 THEN value ELSE fallback

_range_check_period(value, fallback) ==
    IF value >= 0 /\ value < 60 THEN value ELSE fallback

\* (data & (1 << bit)) != 0
_bittest(data, bit) == ((data \div (2 ^ bit)) % 2) = 1

\* Faulty variant of TxCharException: the fan-speed character is not checked.
TxCharException_FanUnchecked(databytes) ==
    IF \E i \in 1..Len(databytes) : databytes[i] >= 128 /\ i # 5 THEN "UnicodeDecodeError"
    ELSE IF Len(databytes) < 10 THEN "IndexError"
    ELSE IF ~PyInt(Slice(databytes, 10, 13)).ok THEN "ValueError"
    ELSE IF ~PyInt(Slice(databytes, 13, 15)).ok THEN "ValueError"
    ELSE ""

\* The exception replace_from_tx_char raises on databytes, "" when it returns.
\* Evaluation order: decode("ASCII"), then the keyword arguments in order.
TxCharException(databytes) ==
    IF \E i \in 1..Len(databytes) : databytes[i] >= 128 THEN "UnicodeDecodeError"
    ELSE IF Len(databytes) < 5 THEN "IndexError"
    ELSE IF ~PyInt(<<databytes[5]>>).ok THEN "ValueError"
    ELSE IF Len(databytes) < 10 THEN "IndexError"
    ELSE IF ~PyInt(Slice(databytes, 10, 13)).ok THEN "ValueError"
    ELSE IF ~PyInt(Slice(databytes, 13, 15)).ok THEN "ValueError"
    ELSE ""

\* Faulty variant of replace_from_tx_char: the fields the payload does not
\* carry are reset to the defaults.
replace_from_tx_char_Reset(self, databytes) ==
    [DefaultState EXCEPT
        !.fan_speed = PyInt(<<databytes[5]>>).val,
        !.light_on = (databytes[6] = Ord("L")),
        !.after_cooking_on = (databytes[7] = Ord("N")),
        !.carbon_filter_available = (databytes[8] = Ord("C")),
        !.grease_filter_full = (databytes[9] = Ord("F")),
        !.carbon_filter_full = (databytes[10] = Ord("K")),
        !.dim_level = _range_check_dim(PyInt(Slice(databytes, 10, 13)).val, self.dim_level),
        !.periodic_venting =
            _range_check_period(PyInt(Slice(databytes, 13, 15)).val, self.periodic_venting)]

\* State.replace_from_tx_char(databytes), when it does not raise.
replace_from_tx_char(self, databytes) ==
    [self EXCEPT
        !.fan_speed = PyInt(<<databytes[5]>>).val,
        !.light_on = (databytes[6] = Ord("L")),
        !.after_cooking_on = (databytes[7] = Ord("N")),
        !.carbon_filter_available = (databytes[8] = Ord("C")),
        !.grease_filter_full = (databytes[9] = Ord("F")),
        !.carbon_filter_full = (databytes[10] = Ord("K")),
        !.dim_level = _range_check_dim(PyInt(Slice(databytes, 10, 13)).val, self.dim_level),
        !.periodic_venting =
            _range_check_period(PyInt(Slice(databytes, 13, 15)).val, self.periodic_venting)]

\* The exception replace_from_manufacture_data raises on data, "" when it returns.
ManufactureDataException(data) == IF Len(data) < 15 THEN "IndexError" ELSE ""

\* Faulty variant of AdvLightOn: the override also taken when the dim level is equal.
AdvLightOn_OrEqual(self, data) ==
    LET light_on == _bittest(data[11], 0)
        dim_level == _range_check_dim(data[14], self.dim_level)
    IN  IF light_on /\ ~self.light_on /\ dim_level <= self.dim_level
        THEN FALSE ELSE light_on

\* The light_on local of replace_from_manufacture_data after the override test.
AdvLightOn(self, data) ==
    LET light_on == _bittest(data[11], 0)
        dim_level == _range_check_dim(data[14], self.dim_level)
    IN  IF light_on /\ ~self.light_on /\ dim_level < self.dim_level
        THEN FALSE ELSE light_on

\* State.replace_from_manufacture_data(data, rssi=rssi), when it does not raise.
replace_from_manufacture_data(self, data, rssi) ==
    [self EXCEPT
        !.fan_speed = data[9],
        !.after_cooking_fan_speed = data[10],
        !.light_on = AdvLightOn(self, data),
        !.after_cooking_on = _bittest(data[11], 1),
        !.periodic_venting_on = _bittest(data[11], 2),
        !.grease_filter_full = _bittest(data[12], 0),
        !.carbon_filter_full = _bittest(data[12], 1),
        !.carbon_filter_available = _bittest(data[12], 2),
        !.dim_level = _range_check_dim(data[14], self.dim_level),
        !.periodic_venting = _range_check_period(data[15], self.periodic_venting),
        !.rssi = rssi]


(***************************************************************************)
(* Inputs: the payloads the transport delivers                             *)
(***************************************************************************)

\* A characteristic payload: keycode, then fan digit, five flag characters,
\* three dim digits, two period digits.
TxChar(key, body) == key \o Bytes(body)

WrongKeycode == Bytes(<<"1", "2", "3", "5">>)

\* A manufacturer payload: the announce prefix, then bytes 8..14.
AdvData(prefix, fan, after, flags10, flags11, dim, period) ==
    prefix \o <<fan, after, flags10, flags11, 0, dim, period>>

WrongPrefix == Bytes(<<"H", "O", "O", "D", "F", "J", "A", "x">>)

\* Inputs of the connection specification: a characteristic payload that is
\* applied and one that is refused, an advertisement that is applied (with
\* no manufacturer data it is refused), and a known command.
CharPayloads ==
    { TxChar(Keycode, <<"3", "L", "N", "C", "F", "K", "1", "0", "1", "3", "0">>),
      TxChar(WrongKeycode, <<"1", "L", "N", "C", "F", "K", "0", "2", "0", "1", "0">>) }

AdvPayloads == {AdvData(ANNOUNCE_PREFIX, 3, 2, 6, 5, 20, 60)}

Rssis == {0 - 60}

Commands == {COMMAND_LIGHT_ON_HEX}

\* Inputs of the codec specification: applied payloads with in-range,
\* boundary, out-of-range and negative numbers, and refused or malformed ones.
CodecCharPayloads ==
    { TxChar(Keycode, <<"3", "L", "N", "C", "F", "K", "0", "2", "0", "3", "0">>),
      TxChar(Keycode, <<"3", "-", "-", "-", "-", "-", "0", "5", "0", "5", "9">>),
      TxChar(Keycode, <<"3", "L", "-", "-", "-", "-", "1", "0", "0", "6", "0">>),
      TxChar(Keycode, <<"3", "-", "N", "C", "F", "K", "1", "0", "1", "0", "0">>),
      TxChar(Keycode, <<"3", "L", "N", "C", "F", "K", "-", "0", "5", "-", "5">>),
      TxChar(Keycode, <<"x", "L", "N", "C", "F", "K", "0", "5", "0", "3", "0">>),
      TxChar(Keycode, <<" ", "L", "N", "C", "F", "K", "0", "5", "0", "3", "0">>),
      Keycode \o <<200>> \o Bytes(<<"L", "N", "C", "F", "K", "0", "5", "0", "3", "0">>),
      TxChar(Keycode, <<"3", "L", "N", "C", "F", "K", "0", "x", "0", "3", "0">>),
      TxChar(Keycode, <<"3", "L", "N", "C">>),
      TxChar(Keycode, <<"3", "L", "N", "C", "F", "K", "0", "5", "0", "3", "0">>) \o <<200>>,
      TxChar(WrongKeycode, <<"3", "L", "N", "C", "F", "K", "0", "2", "0", "3", "0">>),
      Bytes(<<"1", "2", "3">>),
      <<>> }

CodecAdvPayloads ==
    { AdvData(ANNOUNCE_PREFIX, 3, 2, 1, 5, 20, 30),
      AdvData(ANNOUNCE_PREFIX, 3, 2, 1, 5, 50, 59),
      AdvData(ANNOUNCE_PREFIX, 3, 2, 0, 5, 50, 60),
      AdvData(ANNOUNCE_PREFIX, 3, 2, 7, 2, 100, 30),
      AdvData(ANNOUNCE_PREFIX, 3, 2, 1, 5, 101, 255),
      AdvData(ANNOUNCE_PREFIX, 3, 2, 6, 5, 0, 0),
      AdvData(WrongPrefix, 3, 2, 1, 5, 20, 30),
      Slice(ANNOUNCE_PREFIX, 0, 7),
      ANNOUNCE_PREFIX \o <<3, 2, 1>> }

CodecRssis == {0 - 60}

\* Commands callers send: the two known ones, the first in upper case,
\* another valid hex string, and a string fromhex() rejects.
CodecCommands ==
    { COMMAND_LIGHT_ON_HEX, COMMAND_LIGHT_OFF_HEX,
      "84DD5042374150897AC82F39110968A8", "00", "zz" }

\* bytearray.fromhex(cmd) raises ValueError.
FromHexFails(c) == c = "zz"

(***************************************************************************)
(* The program state                                                       *)
(***************************************************************************)
VARIABLES
    state,          \* Device.state
    _lock,          \* Device._lock: [locked, waiters, woken]
    _client,        \* Device._client: None or the id of the link it wraps
    _client_count,  \* Device._client_count
    _client_stack,  \* Device._client_stack: the entered BleakClient contexts
    pc,             \* where each task's coroutine is suspended
    cmd,            \* the cmd argument of the task's send_command in flight
    popped,         \* the stack pop_all() returned, being closed by the task
    atCall,         \* what the task found when it called connect()
    links,          \* the links open at the transport
    opened,         \* BleakClient contexts entered so far
    closed,         \* BleakClient contexts exited so far
    filtered,       \* the last call of device_filter: its arguments and outcome
    lastEvt         \* the last handler, failed call or read or write begun, its
                    \* arguments and outcome

conn == <<_lock, _client, _client_count, _client_stack, popped, links, opened, closed>>
vars == <<state, conn, pc, cmd, atCall, filtered, lastEvt>>

\* An entry of lastEvt: io is the exception the transport raised, exc the
\* one the caller got ("" none); during tells, for a completed read or write,
\* that a callback replaced Device.state while it was awaited.
Evt(kind, data, rssi, c, e, x) ==
    [kind |-> kind, data |-> data, rssi |-> rssi, cmd |-> c, io |-> e, exc |-> x,
     during |-> FALSE]

\* A value of filtered: the arguments of the call (device.name, the
\* service_uuids and manufacturer_data of the advertisement), what it returned
\* and the exception it raised ("" none).
Filtered(called, name, service_uuids, manufacturer_data, ret, x) ==
    [called |-> called, name |-> name, service_uuids |-> service_uuids,
     manufacturer_data |-> manufacturer_data, ret |-> ret, exc |-> x]

Init ==
    /\ state = DefaultState
    /\ _lock = [locked |-> FALSE, waiters |-> <<>>, woken |-> {}]
    /\ _client = None
    /\ _client_count = 0
    /\ _client_stack = <<>>
    /\ pc = [t \in Tasks |-> "idle"]
    /\ cmd = [t \in Tasks |-> ""]
    /\ popped = [t \in Tasks |-> <<>>]
    /\ atCall = [t \in Tasks |-> [client |-> None, count |-> 0, acquiring |-> {}, holders |-> {}]]
    /\ links = {}
    /\ opened = 0
    /\ closed = 0
    /\ filtered = Filtered(FALSE, "", {}, <<>>, FALSE, "")
    /\ lastEvt = Evt("", <<>>, 0, "", "", "")

(***************************************************************************)
(* asyncio.Lock: acquire() takes a free lock at once only when nobody      *)
(* waits; release() wakes the first waiter, which takes the lock when it   *)
(* runs and leaves the queue then.                                         *)
(***************************************************************************)

CanTake(L) == ~L.locked /\ L.waiters = <<>>

Take(L) == [L EXCEPT !.locked = TRUE]

Enqueue(L, t) == [L EXCEPT !.waiters = Append(@, t)]

\* Faulty variant of Release: the first waiter is not woken.
Release_NoWake(L) == [L EXCEPT !.locked = FALSE]

Release(L) ==
    [L EXCEPT !.locked = FALSE,
              !.woken = IF L.waiters # <<>> THEN @ \cup {Head(L.waiters)} ELSE @]

\* The woken waiter t can resume inside acquire().
Woken(L, t) == L.waiters # <<>> /\ Head(L.waiters) = t /\ t \in L.woken /\ ~L.locked

Resume(L, t) ==
    [L EXCEPT !.locked = TRUE, !.waiters = Tail(@), !.woken = @ \ {t}]

(***************************************************************************)
(* Device.connect()                                                        *)
(***************************************************************************)

Acquiring == {"lock1", "connecting", "lock2"}
InScope == {"scope", "reading", "writing"}
Releasing == {"lock3", "closing"}

\* Faulty variant of NeedConnect: the test of line 147 left out.
NeedConnect_Always(client) == TRUE

\* line 147: if not self._client
NeedConnect(client) == client = None

\* Faulty variant of CountAfterAcquire: the increment of line 159 left out.
CountAfterAcquire_Forget(count) == count

\* line 159: self._client_count += 1
CountAfterAcquire(count) == count + 1

\* Faulty variant of CountAfterRelease: the decrement of line 166 left out.
CountAfterRelease_Forget(count) == count

\* line 166: self._client_count -= 1
CountAfterRelease(count) == count - 1

\* Faulty variant of LastHolder: every release closes the link.
LastHolder_Any(count) == TRUE

\* line 167: if self._client_count == 0
LastHolder(count) == count = 0

\* The exceptions of the transport the code catches.
TransportErrors == {"TimeoutError", "BleakError"}

\* Faulty variant of ConnectError: the timeout is not told apart.
ConnectError_NoTimeout(e) == "IdealLedBleakError"

\* lines 151-156: the exception connect() raises for a transport exception.
ConnectError(e) ==
    IF e = "TimeoutError" THEN "IdealLedTimeout" ELSE "IdealLedBleakError"

\* lines 161-163: `async with self._lock: yield self`, the lock being L.
EnterScope(t, L) ==
    IF CanTake(L)
    THEN /\ _lock' = Take(L)
         /\ pc' = [pc EXCEPT ![t] = "scope"]
    ELSE /\ _lock' = Enqueue(L, t)
         /\ pc' = [pc EXCEPT ![t] = "lock2"]

\* lines 147-159 with the lock L held by t: start the physical connect, or
\* reuse the link, count the holder, release and go on to the scope.
UnderLock1(t, L) ==
    IF NeedConnect(_client)
    THEN /\ _lock' = L
         /\ pc' = [pc EXCEPT ![t] = "connecting"]
         /\ UNCHANGED _client_count
    ELSE /\ _client_count' = CountAfterAcquire(_client_count)
         /\ EnterScope(t, Release(L))

\* lines 166-170 with the lock L held by t.
UnderLock3(t, L) ==
    LET count == CountAfterRelease(_client_count) IN
    /\ _client_count' = count
    /\ IF LastHolder(count)
       THEN /\ _client' = None
            /\ popped' = [popped EXCEPT ![t] = _client_stack]
            /\ _client_stack' = <<>>
            /\ _lock' = L
            /\ pc' = [pc EXCEPT ![t] = "closing"]
       ELSE /\ _lock' = Release(L)
            /\ pc' = [pc EXCEPT ![t] = "done"]
            /\ UNCHANGED <<_client, popped, _client_stack>>

\* A task calls connect(): lines 143-147, up to the first suspension.
Call(t) ==
    /\ pc[t] = "idle"
    /\ atCall' = [atCall EXCEPT ![t] =
            [client |-> _client, count |-> _client_count,
             acquiring |-> {u \in Tasks : pc[u] \in Acquiring},
             holders |-> {u \in Tasks : pc[u] \in InScope}]]
    /\ IF CanTake(_lock)
       THEN UnderLock1(t, Take(_lock))
       ELSE /\ _lock' = Enqueue(_lock, t)
            /\ pc' = [pc EXCEPT ![t] = "lock1"]
            /\ UNCHANGED _client_count
    /\ UNCHANGED <<state, _client, _client_stack, popped, links, opened, closed,
                   cmd, filtered, lastEvt>>

\* The waiter of line 146 gets the lock.
Lock1Resume(t) ==
    /\ pc[t] = "lock1"
    /\ Woken(_lock, t)
    /\ UnderLock1(t, Resume(_lock, t))
    /\ UNCHANGED <<state, _client, _client_stack, popped, links, opened, closed,
                   cmd, atCall, filtered, lastEvt>>

\* line 150 returns: the context is entered, the link is open.
ConnectOk(t) ==
    /\ pc[t] = "connecting"
    /\ opened' = opened + 1
    /\ links' = links \cup {opened + 1}
    /\ _client' = opened + 1
    /\ _client_stack' = Append(_client_stack, opened + 1)
    /\ _client_count' = CountAfterAcquire(_client_count)
    /\ EnterScope(t, Release(_lock))
    /\ UNCHANGED <<state, popped, closed, cmd, atCall, filtered, lastEvt>>

\* line 150 raises e: nothing is entered, the lock is released on the way out.
ConnectFail(t, e) ==
    /\ pc[t] = "connecting"
    /\ lastEvt' = Evt("connect", <<>>, 0, "", e, ConnectError(e))
    /\ _lock' = Release(_lock)
    /\ pc' = [pc EXCEPT ![t] = "failed"]
    /\ UNCHANGED <<state, _client, _client_count, _client_stack, popped, links,
                   opened, closed, cmd, atCall, filtered>>

\* The waiter of line 162 gets the lock and the body of the caller runs.
Lock2Resume(t) ==
    /\ pc[t] = "lock2"
    /\ Woken(_lock, t)
    /\ _lock' = Resume(_lock, t)
    /\ pc' = [pc EXCEPT ![t] = "scope"]
    /\ UNCHANGED <<state, _client, _client_count, _client_stack, popped, links,
                   opened, closed, cmd, atCall, filtered, lastEvt>>

\* The body of the caller ends, normally or by the exception it got: the lock
\* of line 162 is released and the finally block starts (line 165).
LeaveScope(t) ==
    /\ pc[t] = "scope"
    /\ LET L == Release(_lock) IN
       IF CanTake(L)
       THEN UnderLock3(t, Take(L))
       ELSE /\ _lock' = Enqueue(L, t)
            /\ pc' = [pc EXCEPT ![t] = "lock3"]
            /\ UNCHANGED <<_client, _client_count, _client_stack, popped>>
    /\ UNCHANGED <<state, links, opened, closed, cmd, atCall, filtered, lastEvt>>

\* The waiter of line 165 gets the lock.
Lock3Resume(t) ==
    /\ pc[t] = "lock3"
    /\ Woken(_lock, t)
    /\ UnderLock3(t, Resume(_lock, t))
    /\ UNCHANGED <<state, links, opened, closed, cmd, atCall, filtered, lastEvt>>

\* line 170 returns: every popped context is exited, its link closed.
CloseDone(t) ==
    /\ pc[t] = "closing"
    /\ links' = links \ {popped[t][i] : i \in 1..Len(popped[t])}
    /\ closed' = closed + Len(popped[t])
    /\ popped' = [popped EXCEPT ![t] = <<>>]
    /\ _lock' = Release(_lock)
    /\ pc' = [pc EXCEPT ![t] = "done"]
    /\ UNCHANGED <<state, _client, _client_count, _client_stack, opened, cmd,
                   atCall, filtered, lastEvt>>

(***************************************************************************)
(* The handlers that replace Device.state                                  *)
(***************************************************************************)

\* ANNOUNCE_MANUFACTURER = int.from_bytes(ANNOUNCE_PREFIX[0:2], "little")
ANNOUNCE_MANUFACTURER == ANNOUNCE_PREFIX[1] + 256 * ANNOUNCE_PREFIX[2]

\* dict.get(key, default) on a dict given as a function.
DictGet(dict, key, default) == IF key \in DOMAIN dict THEN dict[key] ELSE default

\* Faulty variant of KeycodeOk: the keycode test left out.
KeycodeOk_Any(data) == TRUE

\* line 176: the keycode test of characteristic_callback.
KeycodeOk(data) == Slice(data, 0, 4) = Keycode

\* Device.characteristic_callback(data) on Device.state = self: the new
\* Device.state and the exception raised ("" none).
characteristic_callback(self, data) ==
    IF ~KeycodeOk(data) THEN [state |-> self, exc |-> ""]
    ELSE IF TxCharException(data) # "" THEN [state |-> self, exc |-> TxCharException(data)]
    ELSE [state |-> replace_from_tx_char(self, data), exc |-> ""]

\* Faulty variant of PrefixOk: the prefix test left out.
PrefixOk_Any(data) == TRUE

\* line 196: the prefix test of detection_callback_raw.
PrefixOk(data) == Slice(data, 0, 8) = ANNOUNCE_PREFIX

\* Device.detection_callback_raw(data, rssi) on Device.state = self.
detection_callback_raw(self, data, rssi) ==
    IF ~PrefixOk(data) THEN [state |-> self, exc |-> ""]
    ELSE IF ManufactureDataException(data) # ""
         THEN [state |-> self, exc |-> ManufactureDataException(data)]
    ELSE [state |-> replace_from_manufacture_data(self, data, rssi), exc |-> ""]

\* Device.detection_callback(device, advertisement_data) on Device.state = self,
\* the advertisement carrying manufacturer_data and rssi.
detection_callback(self, manufacturer_data, rssi) ==
    IF ANNOUNCE_MANUFACTURER \notin DOMAIN manufacturer_data
    THEN [state |-> self, exc |-> ""]
    ELSE detection_callback_raw(
            self,
            Slice(ANNOUNCE_PREFIX, 0, 2) \o manufacturer_data[ANNOUNCE_MANUFACTURER],
            rssi)

\* Faulty variant of StateAfterCommand: LIGHT_OFF is not recognised.
StateAfterCommand_NoOff(self, c) ==
    IF c = COMMAND_LIGHT_ON_HEX THEN [self EXCEPT !.light_on = TRUE] ELSE self

\* Faulty variant of StateAfterCommand: the State is built anew, not derived
\* from the current Device.state.
StateAfterCommand_FromDefault(self, c) ==
    IF c = COMMAND_LIGHT_ON_HEX THEN [DefaultState EXCEPT !.light_on = TRUE]
    ELSE IF c = COMMAND_LIGHT_OFF_HEX THEN [DefaultState EXCEPT !.light_on = FALSE]
    ELSE self

\* lines 232-235: Device.state after a written command.
StateAfterCommand(self, c) ==
    IF c = COMMAND_LIGHT_ON_HEX THEN [self EXCEPT !.light_on = TRUE]
    ELSE IF c = COMMAND_LIGHT_OFF_HEX THEN [self EXCEPT !.light_on = FALSE]
    ELSE self

\* lines 209-214: the exception update() raises for a transport exception.
UpdateError(e) ==
    IF e = "TimeoutError" THEN "IdealLedTimeout" ELSE "IdealLedBleakError"

\* Faulty variant of SendError: the timeout is not told apart.
SendError_NoTimeout(e) == "IdealLedBleakError"

\* lines 225-230: the exception send_command() raises for a transport exception.
SendError(e) ==
    IF e = "TimeoutError" THEN "IdealLedTimeout" ELSE "IdealLedBleakError"

\* Faulty variant of Notify: the callback takes the lock, so it queues at the
\* lock when a task holds it.
Notify_UnderLock(data) ==
    LET res == characteristic_callback(state, data) IN
    IF CanTake(_lock)
    THEN /\ state' = res.state
         /\ lastEvt' = Evt("characteristic_callback", data, 0, "", "", res.exc)
         /\ UNCHANGED <<conn, pc, cmd, atCall, filtered>>
    ELSE /\ _lock' = Enqueue(_lock, 0)
         /\ UNCHANGED <<state, _client, _client_count, _client_stack, popped, links,
                        opened, closed, pc, cmd, atCall, filtered, lastEvt>>

\* The transport delivers a notification: characteristic_callback(data).
Notify(data) ==
    LET res == characteristic_callback(state, data) IN
    /\ state' = res.state
    /\ lastEvt' = Evt("characteristic_callback", data, 0, "", "", res.exc)
    /\ UNCHANGED <<conn, pc, cmd, atCall, filtered>>

\* The scanner delivers an advertisement: detection_callback(device, advertisement_data).
Advertise(manufacturer_data, rssi) ==
    LET res == detection_callback(state, manufacturer_data, rssi) IN
    /\ state' = res.state
    /\ lastEvt' = Evt("detection_callback", DictGet(manufacturer_data, ANNOUNCE_MANUFACTURER, <<>>),
                      rssi, "", "", res.exc)
    /\ UNCHANGED <<conn, pc, cmd, atCall, filtered>>

\* A caller hands over raw manufacturer data: detection_callback_raw(data, rssi).
AdvertiseRaw(data, rssi) ==
    LET res == detection_callback_raw(state, data, rssi) IN
    /\ state' = res.state
    /\ lastEvt' = Evt("detection_callback_raw", data, rssi, "", "", res.exc)
    /\ UNCHANGED <<conn, pc, cmd, atCall, filtered>>

\* The entry evt of lastEvt is a callback that replaced Device.state
\* (line 180 or line 200 ran).
Applied(evt) ==
    /\ evt.exc = ""
    /\ \/ evt.kind = "characteristic_callback" /\ KeycodeOk(evt.data)
       \/ evt.kind = "detection_callback_raw" /\ PrefixOk(evt.data)
       \/ evt.kind = "detection_callback"
            /\ PrefixOk(Slice(ANNOUNCE_PREFIX, 0, 2) \o evt.data)

\* The holder calls update(): line 206, then the read is awaited (line 208).
UpdateStart(t) ==
    /\ pc[t] = "scope"
    /\ IF _client = None
       THEN /\ lastEvt' = Evt("update", <<>>, 0, "", "", "AssertionError")
            /\ UNCHANGED pc
       ELSE /\ pc' = [pc EXCEPT ![t] = "reading"]
            /\ lastEvt' = Evt("read_gatt_char", <<>>, 0, "", "", "")
    /\ UNCHANGED <<state, conn, cmd, atCall, filtered>>

\* The read returns databytes: line 216.
UpdateRead(t, databytes) ==
    LET res == characteristic_callback(state, databytes) IN
    /\ pc[t] = "reading"
    /\ state' = res.state
    /\ lastEvt' = [Evt("update", databytes, 0, "", "", res.exc)
                        EXCEPT !.during = Applied(lastEvt)]
    /\ pc' = [pc EXCEPT ![t] = "scope"]
    /\ UNCHANGED <<conn, cmd, atCall, filtered>>

\* The read raises e: lines 209-214.
UpdateFail(t, e) ==
    /\ pc[t] = "reading"
    /\ lastEvt' = Evt("update", <<>>, 0, "", e, UpdateError(e))
    /\ pc' = [pc EXCEPT ![t] = "scope"]
    /\ UNCHANGED <<state, conn, cmd, atCall, filtered>>

\* The holder calls send_command(c): lines 220-221, then the write is awaited.
SendStart(t, c) ==
    /\ pc[t] = "scope"
    /\ IF _client = None
       THEN /\ lastEvt' = Evt("send_command", <<>>, 0, c, "", "AssertionError")
            /\ UNCHANGED <<pc, cmd>>
       ELSE IF FromHexFails(c)
       THEN /\ lastEvt' = Evt("send_command", <<>>, 0, c, "", "ValueError")
            /\ UNCHANGED <<pc, cmd>>
       ELSE /\ cmd' = [cmd EXCEPT ![t] = c]
            /\ pc' = [pc EXCEPT ![t] = "writing"]
            /\ lastEvt' = Evt("write_gatt_char", <<>>, 0, c, "", "")
    /\ UNCHANGED <<state, conn, atCall, filtered>>

\* The write returns: lines 232-235.
SendDone(t) ==
    /\ pc[t] = "writing"
    /\ state' = StateAfterCommand(state, cmd[t])
    /\ lastEvt' = [Evt("send_command", <<>>, 0, cmd[t], "", "")
                        EXCEPT !.during = Applied(lastEvt)]
    /\ cmd' = [cmd EXCEPT ![t] = ""]
    /\ pc' = [pc EXCEPT ![t] = "scope"]
    /\ UNCHANGED <<conn, atCall, filtered>>

\* The write raises e: lines 225-230.
SendFail(t, e) ==
    /\ pc[t] = "writing"
    /\ lastEvt' = Evt("send_command", <<>>, 0, cmd[t], e, SendError(e))
    /\ cmd' = [cmd EXCEPT ![t] = ""]
    /\ pc' = [pc EXCEPT ![t] = "scope"]
    /\ UNCHANGED <<state, conn, atCall, filtered>>

(***************************************************************************)
(* device_filter                                                           *)
(***************************************************************************)

\* str(UUID_RX)
UUID_RX == "d44bc439-abfd-45a2-b575-925416129600"

DEVICE_NAME == "IDEAL_LED"

\* The constants bound at module level (lines 16-25); a name that is not
\* among them, nor a class, function or import of the module, is unbound.
ModuleGlobals ==
    [COMMAND_LIGHT_ON_HEX |-> COMMAND_LIGHT_ON_HEX,
     COMMAND_LIGHT_OFF_HEX |-> COMMAND_LIGHT_OFF_HEX,
     UUID_RX |-> UUID_RX,
     DEVICE_NAME |-> DEVICE_NAME,
     ANNOUNCE_PREFIX |-> ANNOUNCE_PREFIX,
     ANNOUNCE_MANUFACTURER |-> ANNOUNCE_MANUFACTURER]

\* device_filter(device, advertisement_data): the value returned and the
\* exception raised ("" none).  Line 114 reads the global UUID_SERVICE.
device_filter(name, service_uuids, manufacturer_data) ==
    IF "UUID_SERVICE" \notin DOMAIN ModuleGlobals
    THEN [ret |-> FALSE, exc |-> "NameError"]
    ELSE IF ModuleGlobals["UUID_SERVICE"] \in service_uuids
    THEN [ret |-> TRUE, exc |-> ""]
    ELSE IF name = DEVICE_NAME
    THEN [ret |-> TRUE, exc |-> ""]
    ELSE IF StartsWith(DictGet(manufacturer_data, ANNOUNCE_MANUFACTURER, <<>>),
                       Slice(ANNOUNCE_PREFIX, 2, Len(ANNOUNCE_PREFIX)))
    THEN [ret |-> TRUE, exc |-> ""]
    ELSE [ret |-> FALSE, exc |-> ""]

\* The discovery flow calls device_filter on a discovered device.
Filter(name, service_uuids, manufacturer_data) ==
    LET res == device_filter(name, service_uuids, manufacturer_data) IN
    /\ filtered' = Filtered(TRUE, name, service_uuids, manufacturer_data, res.ret, res.exc)
    /\ UNCHANGED <<state, conn, pc, cmd, atCall, lastEvt>>

\* The discovered devices: their names, advertised service UUIDs and
\* manufacturer data.
FilterNames == {DEVICE_NAME, "IDEAL_LED ", "Hood", ""}

FilterUuids ==
    { {}, {UUID_RX}, {"0000180a-0000-1000-8000-00805f9b34fb"},
      {UUID_RX, "0000180a-0000-1000-8000-00805f9b34fb"} }

FilterManufacturerData ==
    { <<>>,
      (ANNOUNCE_MANUFACTURER :> Slice(ANNOUNCE_PREFIX, 2, 8) \o <<3, 2, 1, 5, 0, 20, 30>>),
      (ANNOUNCE_MANUFACTURER :> Slice(ANNOUNCE_PREFIX, 2, 8)),
      (ANNOUNCE_MANUFACTURER :> Slice(ANNOUNCE_PREFIX, 2, 7)),
      (ANNOUNCE_MANUFACTURER :> <<>>),
      (ANNOUNCE_MANUFACTURER :> Slice(WrongPrefix, 2, 8) \o <<3, 2, 1, 5, 0, 20, 30>>),
      (76 :> Slice(ANNOUNCE_PREFIX, 2, 8)) }

(***************************************************************************)
(* Specifications                                                          *)
(***************************************************************************)

\* The manufacturer_data dicts of the advertisements: none for the device's
\* manufacturer id, or the payload less its first two bytes.
ManufacturerData(payloads) ==
    {<<>>} \cup {(ANNOUNCE_MANUFACTURER :> Slice(d, 2, Len(d))) : d \in payloads}

\* The device with NumTasks tasks and the callbacks of the transport.
Next ==
    \/ \E t \in Tasks : Call(t)
    \/ \E t \in Tasks : Lock1Resume(t)
    \/ \E t \in Tasks : ConnectOk(t)
    \/ \E t \in Tasks, e \in TransportErrors : ConnectFail(t, e)
    \/ \E t \in Tasks : Lock2Resume(t)
    \/ \E t \in Tasks : UpdateStart(t)
    \/ \E t \in Tasks, d \in CharPayloads : UpdateRead(t, d)
    \/ \E t \in Tasks, e \in TransportErrors : UpdateFail(t, e)
    \/ \E t \in Tasks, c \in Commands : SendStart(t, c)
    \/ \E t \in Tasks : SendDone(t)
    \/ \E t \in Tasks, e \in TransportErrors : SendFail(t, e)
    \/ \E t \in Tasks : LeaveScope(t)
    \/ \E t \in Tasks : Lock3Resume(t)
    \/ \E t \in Tasks : CloseDone(t)
    \/ \E d \in CharPayloads : Notify(d)
    \/ \E m \in ManufacturerData(AdvPayloads), r \in Rssis : Advertise(m, r)
    \/ \E d \in AdvPayloads, r \in Rssis : AdvertiseRaw(d, r)

Spec == Init /\ [][Next]_vars

\* The one task of the codec specification.
Holder == {1}

\* The device with one task and the callbacks, on the codec inputs.
NextCodec ==
    \/ \E t \in Holder : Call(t)
    \/ \E t \in Holder : ConnectOk(t)
    \/ \E t \in Holder, e \in TransportErrors : ConnectFail(t, e)
    \/ \E t \in Holder : UpdateStart(t)
    \/ \E t \in Holder, d \in CodecCharPayloads : UpdateRead(t, d)
    \/ \E t \in Holder, e \in TransportErrors : UpdateFail(t, e)
    \/ \E t \in Holder, c \in CodecCommands : SendStart(t, c)
    \/ \E t \in Holder : SendDone(t)
    \/ \E t \in Holder, e \in TransportErrors : SendFail(t, e)
    \/ \E t \in Holder : LeaveScope(t)
    \/ \E t \in Holder : CloseDone(t)
    \/ \E d \in CodecCharPayloads : Notify(d)
    \/ \E m \in ManufacturerData(CodecAdvPayloads), r \in CodecRssis : Advertise(m, r)
    \/ \E d \in CodecAdvPayloads, r \in CodecRssis : AdvertiseRaw(d, r)

SpecCodec == Init /\ [][NextCodec]_vars

\* The tasks alone, each calling connect() once and reading or writing in its
\* scope: no callbacks.
NextConnect ==
    \/ \E t \in Tasks : Call(t)
    \/ \E t \in Tasks : Lock1Resume(t)
    \/ \E t \in Tasks : ConnectOk(t)
    \/ \E t \in Tasks, e \in TransportErrors : ConnectFail(t, e)
    \/ \E t \in Tasks : Lock2Resume(t)
    \/ \E t \in Tasks : UpdateStart(t)
    \/ \E t \in Tasks, d \in CharPayloads : UpdateRead(t, d)
    \/ \E t \in Tasks, e \in TransportErrors : UpdateFail(t, e)
    \/ \E t \in Tasks, c \in Commands : SendStart(t, c)
    \/ \E t \in Tasks : SendDone(t)
    \/ \E t \in Tasks, e \in TransportErrors : SendFail(t, e)
    \/ \E t \in Tasks : LeaveScope(t)
    \/ \E t \in Tasks : Lock3Resume(t)
    \/ \E t \in Tasks : CloseDone(t)

\* Every task calls connect(), and the event loop runs a waiter the lock has
\* woken (lines 146, 162, 165).
LoopFairness ==
    \A t \in Tasks :
        /\ WF_vars(Call(t))
        /\ WF_vars(Lock1Resume(t))
        /\ WF_vars(Lock2Resume(t))
        /\ WF_vars(Lock3Resume(t))

\* The physical connect of line 150 returns or raises.
ConnectTerminates ==
    \A t \in Tasks : WF_vars(ConnectOk(t) \/ \E e \in TransportErrors : ConnectFail(t, e))

\* The body of a scope ends: an awaited read or write returns or raises, and
\* the body does not go on reading and writing for ever.
ScopeTerminates ==
    \A t \in Tasks :
        /\ WF_vars((\E d \in CharPayloads : UpdateRead(t, d))
                    \/ (\E e \in TransportErrors : UpdateFail(t, e)))
        /\ WF_vars(SendDone(t) \/ (\E e \in TransportErrors : SendFail(t, e)))
        /\ SF_vars(LeaveScope(t))

\* The aclose() of line 170 returns.
CloseTerminates == \A t \in Tasks : WF_vars(CloseDone(t))

\* The tasks under a fair lock, with a physical connect and scope bodies that
\* terminate.
SpecFair ==
    Init /\ [][NextConnect]_vars /\ LoopFairness /\ ConnectTerminates /\ ScopeTerminates

\* The discovery flow alone: device_filter on every discovered device.
NextFilter ==
    \E n \in FilterNames, u \in FilterUuids, m \in FilterManufacturerData : Filter(n, u, m)

SpecFilter == Init /\ [][NextFilter]_vars


(***************************************************************************)
(* Properties of the connection manager                                    *)
(***************************************************************************)

\* Tasks counted in _client_count: past line 159 and before line 166.
Counted == {"lock2", "scope", "reading", "writing", "lock3"}

\* The task has entered the scope of connect() or is about to (line 162).
PastConnect == Counted \cup {"closing", "done"}

\* t and u called connect() at overlapping times, each finding the instance
\* Disconnected (no client, count 0), and no other task has called.
ConcurrentOnDisconnected(t, u) ==
    /\ t # u
    /\ pc[t] # "idle" /\ pc[u] # "idle"
    /\ atCall[t].client = None /\ atCall[t].count = 0
    /\ atCall[u].client = None /\ atCall[u].count = 0
    /\ (t \in atCall[u].acquiring \/ u \in atCall[t].acquiring)
    /\ \A w \in Tasks \ {t, u} : pc[w] = "idle"

\* C1: two tasks that concurrently call connect() on a Disconnected instance
\* and both get their scope share one physical connect; the link is closed
\* exactly once, and only when both have finished their release.
C1_OneConnectOneDisconnect ==
    \A t, u \in Tasks :
        (ConcurrentOnDisconnected(t, u) /\ pc[t] \in PastConnect /\ pc[u] \in PastConnect)
            => /\ opened = 1
               /\ closed = (IF pc[t] = "done" /\ pc[u] = "done" THEN 1 ELSE 0)

C1_Witness ==
    \E t, u \in Tasks :
        /\ ConcurrentOnDisconnected(t, u)
        /\ pc[t] = "done" /\ pc[u] = "done"
        /\ opened = 1 /\ closed = 1

\* C2: the handle _client is present exactly when _client_count > 0, in every
\* state between two atomic segments of the coroutines.
C2_ClientIffCounted == (_client # None) <=> (_client_count > 0)

C2_Witness == _client # None /\ _client_count = 2

\* C3: at most one physical link is open at a time, and no physical connect is
\* in progress while a link is open or being closed.
C3_AtMostOneLink ==
    /\ Cardinality(links) <= 1
    /\ \A t \in Tasks : pc[t] = "connecting" => links = {}

C3_Witness ==
    \E t \in Tasks : pc[t] = "connecting" /\ opened >= 1 /\ closed = opened /\ links = {}

\* C4 as claimed: a task that calls connect() while a holder is inside its
\* scope does not wait for that holder: it is never blocked at the lock of
\* line 146 while the holder is still inside.
C4_Original ==
    \A t, u \in Tasks :
        (t \in atCall[u].holders /\ pc[t] \in InScope /\ pc[u] # "idle")
            => pc[u] # "lock1"

\* C4 amended: such a task waits at the lock until the holder leaves the body
\* of its scope, then reuses the link it found (no new physical connect) and
\* enters its own scope; at most one holder is inside its scope at a time.
C4_ReuseAfterHolderLeaves ==
    /\ \A t, u \in Tasks : (t # u /\ pc[t] \in InScope) => pc[u] \notin InScope
    /\ \A u \in Tasks :
        (atCall[u].holders # {} /\ pc[u] \in {"lock2"} \cup InScope)
            => /\ _client # None
               /\ _client = atCall[u].client
               /\ \A t \in atCall[u].holders : pc[t] \notin InScope

C4_Witness ==
    \E u \in Tasks :
        /\ atCall[u].holders # {}
        /\ pc[u] \in InScope
        /\ _client = atCall[u].client
        /\ \E t \in atCall[u].holders : pc[t] = "done"
        /\ opened = 1 /\ closed = 0

\* C5: while a holder is inside its scope the handle is present, so the
\* assertions of update() and send_command() do not fail.
C5_HolderSeesClient ==
    /\ \A t \in Tasks : pc[t] \in InScope => _client # None
    /\ lastEvt.exc # "AssertionError"

C5_Witness ==
    \E t, u \in Tasks :
        /\ pc[t] = "reading"
        /\ pc[u] = "done"
        /\ opened = 1 /\ closed = 0

\* C6: a failed physical connect raises IdealLedTimeout for a timeout and
\* IdealLedBleakError for another transport error, and leaves the instance
\* Disconnected: count 0, no handle, nothing on the exit stack, lock free.
C6_ConnectFailure ==
    [][\A t \in Tasks, e \in TransportErrors :
        ConnectFail(t, e) =>
            /\ lastEvt'.exc = (IF e = "TimeoutError" THEN "IdealLedTimeout"
                               ELSE "IdealLedBleakError")
            /\ _client' = None
            /\ _client_count' = 0
            /\ _client_stack' = <<>>
            /\ links' = {}
            /\ ~_lock'.locked]_vars

C6_Witness ==
    /\ \E t \in Tasks : pc[t] = "failed"
    /\ lastEvt.kind = "connect"
    /\ lastEvt.io = "TimeoutError"
    /\ lastEvt.exc = "IdealLedTimeout"
    /\ _client = None /\ _client_count = 0 /\ ~_lock.locked

\* C7: every holder is counted exactly once from its acquire to its release,
\* however it leaves its scope; when no task holds a reference and no close is
\* in flight, the count is 0, no handle is kept and every link opened is closed.
C7_ReleaseOnEveryExit ==
    /\ _client_count = Cardinality({t \in Tasks : pc[t] \in Counted})
    /\ (\A t \in Tasks : pc[t] \notin Counted \cup {"closing"})
        => /\ _client_count = 0
           /\ _client = None
           /\ _client_stack = <<>>
           /\ links = {}
           /\ closed = opened

C7_Witness ==
    /\ \A t \in Tasks : pc[t] = "done"
    /\ lastEvt.kind = "update"
    /\ lastEvt.exc = "IdealLedBleakError"
    /\ _client_count = 0 /\ _client = None
    /\ opened >= 1 /\ closed = opened

(***************************************************************************)
(* Properties of the State handlers                                        *)
(***************************************************************************)

\* The payload is an advertisement detection_callback_raw applies: it starts
\* with the announce prefix and has bytes 8..14.
AcceptedAdvertisement(data) ==
    /\ Len(data) >= 15
    /\ \A i \in 1..8 : data[i] = ANNOUNCE_PREFIX[i]

\* The first four bytes of the payload differ from the keycode.
WrongKeycodePrefix(data) ==
    \/ Len(data) < 4
    \/ \E i \in 1..4 : data[i] # Keycode[i]

\* C8: dim_level stays in [0,100] and periodic_venting in [0,60) through every
\* sequence of characteristic updates, advertisements and commands.
C8_RangesKept ==
    /\ state.dim_level >= 0 /\ state.dim_level <= 100
    /\ state.periodic_venting >= 0 /\ state.periodic_venting < 60

C8_Witness ==
    /\ lastEvt.kind = "detection_callback_raw"
    /\ AcceptedAdvertisement(lastEvt.data)
    /\ lastEvt.data[14] > 100 /\ lastEvt.data[15] >= 60
    /\ state.dim_level = 100 /\ state.periodic_venting = 59

\* C9: a characteristic payload whose first four bytes are not the keycode,
\* notified or read by update(), leaves Device.state as it was and raises
\* nothing.
C9_WrongKeycodeIgnored ==
    [][(/\ lastEvt'.kind \in {"characteristic_callback", "update"}
        /\ lastEvt'.io = ""
        /\ WrongKeycodePrefix(lastEvt'.data)
        /\ \/ Notify(lastEvt'.data)
           \/ \E t \in Tasks : UpdateRead(t, lastEvt'.data))
            => (state' = state /\ lastEvt'.exc = "")]_vars

C9_Witness ==
    /\ lastEvt.kind = "update"
    /\ lastEvt.io = ""
    /\ Len(lastEvt.data) > 4
    /\ WrongKeycodePrefix(lastEvt.data)
    /\ lastEvt.exc = ""
    /\ state # DefaultState

\* light_on as the override rule gives it, from the previous State and the
\* decoded light bit and dim level of an accepted advertisement.
OverrideRule(previous, data) ==
    LET bit == (data[11] % 2) = 1
    IN  IF bit /\ ~previous.light_on /\ data[14] < previous.dim_level
        THEN FALSE ELSE bit

\* C10: after an accepted advertisement, handed over raw or by the scanner,
\* light_on is false when the decoded light bit is set, the previous light_on
\* is false and the decoded dim level is below the previous one; otherwise it
\* is the decoded light bit.
C10_AdvertisementOverride ==
    [][LET raw == lastEvt'.kind = "detection_callback_raw"
           data == IF raw THEN lastEvt'.data
                   ELSE Slice(ANNOUNCE_PREFIX, 0, 2) \o lastEvt'.data
       IN  (/\ lastEvt'.kind \in {"detection_callback_raw", "detection_callback"}
            /\ AcceptedAdvertisement(data)
            /\ IF raw THEN AdvertiseRaw(data, lastEvt'.rssi)
               ELSE Advertise((ANNOUNCE_MANUFACTURER :> lastEvt'.data), lastEvt'.rssi))
                => state'.light_on = OverrideRule(state, data)]_vars

C10_Witness ==
    /\ lastEvt.kind = "detection_callback_raw"
    /\ AcceptedAdvertisement(lastEvt.data)
    /\ lastEvt.exc = ""
    /\ (lastEvt.data[11] % 2) = 1
    /\ ~state.light_on

\* C11: when the write of send_command(c) returns, light_on is true for
\* c = LIGHT_ON and false for c = LIGHT_OFF whatever it was before, every
\* other field of Device.state keeps its value, and for another command
\* string the whole State is unchanged.
C11_CommandSetsLight ==
    [][\A t \in Tasks :
        SendDone(t) =>
            /\ \A f \in DOMAIN state \ {"light_on"} : state'[f] = state[f]
            /\ cmd[t] = "84dd5042374150897ac82f39110968a8" => state'.light_on
            /\ cmd[t] = "79d1dba40919c246a8580ae7d11b7884" => ~state'.light_on
            /\ cmd[t] \notin {"84dd5042374150897ac82f39110968a8",
                              "79d1dba40919c246a8580ae7d11b7884"}
                => state'.light_on = state.light_on]_vars

\* LIGHT_OFF was written after a characteristic update had set light_on and
\* the numeric fields, which are still there.
C11_Witness ==
    /\ lastEvt.kind = "send_command"
    /\ lastEvt.cmd = COMMAND_LIGHT_OFF_HEX
    /\ lastEvt.exc = ""
    /\ ~state.light_on
    /\ state.after_cooking_on
    /\ state.fan_speed = 3 /\ state.dim_level = 100 /\ state.periodic_venting = 30

\* The outcome the filter rule gives: one of the service UUID, the device
\* name and the manufacturer data prefix matches.
FilterRule(name, service_uuids, manufacturer_data) ==
    \/ "d44bc439-abfd-45a2-b575-925416129600" \in service_uuids
    \/ name = "IDEAL_LED"
    \/ /\ ANNOUNCE_MANUFACTURER \in DOMAIN manufacturer_data
       /\ Len(manufacturer_data[ANNOUNCE_MANUFACTURER]) >= 6
       /\ \A i \in 1..6 : manufacturer_data[ANNOUNCE_MANUFACTURER][i] = ANNOUNCE_PREFIX[i + 2]

\* C12 as claimed: every call of device_filter returns, and returns true
\* exactly when the service UUID, the device name or the manufacturer data
\* prefix matches; in particular a device named "IDEAL_LED" with no service
\* UUIDs and no manufacturer data yields true.
C12_Original ==
    filtered.called =>
        /\ filtered.exc = ""
        /\ filtered.ret = FilterRule(filtered.name, filtered.service_uuids,
                                     filtered.manufacturer_data)

\* The payload starts with the keycode.
HasKeycode(data) ==
    /\ Len(data) >= 4
    /\ \A i \in 1..4 : data[i] = Keycode[i]

\* C13: a characteristic payload with the correct keycode and a character
\* that is not a digit at byte 4, notified or read by update(), raises an
\* error to the caller and leaves every field of Device.state as it was.
C13_BadFanDigitRaises ==
    [][(/\ lastEvt'.kind \in {"characteristic_callback", "update"}
        /\ lastEvt'.io = ""
        /\ HasKeycode(lastEvt'.data)
        /\ Len(lastEvt'.data) >= 5
        /\ lastEvt'.data[5] \notin 48..57
        /\ \/ Notify(lastEvt'.data)
           \/ \E t \in Tasks : UpdateRead(t, lastEvt'.data))
            => /\ lastEvt'.exc \in {"ValueError", "UnicodeDecodeError"}
               /\ state' = state]_vars

\* update() read a payload with a space at byte 4 (the rest well formed):
\* ValueError, and the State an earlier update set is still there.
C13_Witness ==
    /\ lastEvt.kind = "update"
    /\ HasKeycode(lastEvt.data)
    /\ Len(lastEvt.data) = 15
    /\ lastEvt.data[5] = 32
    /\ lastEvt.exc = "ValueError"
    /\ state.fan_speed = 3 /\ state.dim_level = 50

\* C14: when a write or a read completes, the new Device.state is made from
\* the Device.state of that moment, with whatever the callbacks applied during
\* the await: a completed send_command changes nothing but light_on (for
\* LIGHT_ON and LIGHT_OFF), a completed update() keeps the fields its payload
\* does not carry, and a refused or failed read keeps the whole State.
C14_NoLostUpdate ==
    [][\A t \in Tasks :
        /\ SendDone(t) =>
            state' = [state EXCEPT !.light_on =
                        IF cmd[t] = "84dd5042374150897ac82f39110968a8" THEN TRUE
                        ELSE IF cmd[t] = "79d1dba40919c246a8580ae7d11b7884" THEN FALSE
                        ELSE @]
        /\ (lastEvt'.kind = "update" /\ lastEvt'.io = "" /\ UpdateRead(t, lastEvt'.data)) =>
            /\ state'.after_cooking_fan_speed = state.after_cooking_fan_speed
            /\ state'.periodic_venting_on = state.periodic_venting_on
            /\ state'.rssi = state.rssi
            /\ (lastEvt'.exc # "" \/ ~HasKeycode(lastEvt'.data)) => state' = state]_vars

\* LIGHT_OFF was written, an advertisement was applied while the write was
\* awaited, and the State has the advertisement's fields and light_on false.
C14_Witness ==
    /\ lastEvt.kind = "send_command"
    /\ lastEvt.cmd = COMMAND_LIGHT_OFF_HEX
    /\ lastEvt.exc = ""
    /\ lastEvt.during
    /\ ~state.light_on
    /\ state.periodic_venting_on
    /\ state.rssi = 0 - 60 /\ state.dim_level = 100 /\ state.after_cooking_fan_speed = 2

\* The connection manager's part of the state.
ConnectionState == <<_client, _client_count, _client_stack, _lock, pc, links>>

\* C15: a step of one of the three callbacks, in whatever state of the
\* connection manager it is taken (Disconnected, connecting, a task holding
\* the lock, closing), leaves _client, _client_count, the lock with its
\* waiters and the position of every task as they were.
C15_CallbacksOutsideConnection ==
    [][(/\ lastEvt'.kind \in {"characteristic_callback", "detection_callback_raw",
                             "detection_callback"}
        /\ \/ \E d \in CharPayloads : Notify(d)
           \/ \E d \in AdvPayloads, r \in Rssis : AdvertiseRaw(d, r)
           \/ \E m \in ManufacturerData(AdvPayloads), r \in Rssis : Advertise(m, r))
            => ConnectionState' = ConnectionState]_vars

\* A notification was applied while one task awaited its write inside its
\* scope, holding the lock, and another task waited for the lock: the last
\* step before was the start of that write.
C15_Witness ==
    /\ lastEvt.kind = "characteristic_callback"
    /\ lastEvt.exc = ""
    /\ state.fan_speed = 3
    /\ _lock.locked
    /\ _client # None /\ _client_count = 1
    /\ \E t, u \in Tasks : pc[t] = "writing" /\ pc[u] = "lock1"

\* C16: when the write of send_command or the read of update() raises, the
\* caller gets IdealLedTimeout for a timeout and IdealLedBleakError for
\* another transport error, the call is over (the holder is back in its scope
\* body, nothing is written or read again), Device.state is as it was, and
\* the handle, the count and the open link are as they were.
C16_TransportFailure ==
    [][\A t \in Tasks, e \in TransportErrors :
        (SendFail(t, e) \/ UpdateFail(t, e)) =>
            /\ lastEvt'.io = e
            /\ lastEvt'.exc = (IF e = "TimeoutError" THEN "IdealLedTimeout"
                               ELSE "IdealLedBleakError")
            /\ pc'[t] = "scope"
            /\ state' = state
            /\ _client' = _client /\ _client' # None
            /\ _client_count' = _client_count /\ _client_count' >= 1
            /\ links' = links /\ links' # {}
            /\ opened' = opened /\ closed' = closed]_vars

\* A write of LIGHT_ON timed out: the holder is back in its scope with the
\* link, and light_on is still false.
C16_Witness ==
    /\ lastEvt.kind = "send_command"
    /\ lastEvt.cmd = COMMAND_LIGHT_ON_HEX
    /\ lastEvt.io = "TimeoutError"
    /\ lastEvt.exc = "IdealLedTimeout"
    /\ ~state.light_on
    /\ _client # None /\ _client_count >= 1
    /\ \E t \in Tasks : pc[t] = "scope"

\* The characteristic payload has the keycode, fifteen ASCII bytes or more,
\* and numbers int() reads at the fan, dim and period positions.
WellFormedCharacteristic(data) ==
    /\ HasKeycode(data)
    /\ Len(data) >= 15
    /\ \A i \in 1..Len(data) : data[i] < 128
    /\ PyInt(<<data[5]>>).ok
    /\ PyInt(Slice(data, 10, 13)).ok
    /\ PyInt(Slice(data, 13, 15)).ok

\* dim_level and periodic_venting of next are the decoded v and w where these
\* are in range, and those of previous where they are not.
AdoptedOrPrevious(previous, next, v, w) ==
    /\ next.dim_level = (IF 0 <= v /\ v <= 100 THEN v ELSE previous.dim_level)
    /\ next.periodic_venting = (IF 0 <= w /\ w <= 59 THEN w ELSE previous.periodic_venting)

\* C17: for a well-formed characteristic payload and for an accepted
\* advertisement, the decoded dim level is adopted if it is in 0..100 and the
\* decoded period if it is in 0..59; otherwise the field is exactly that of
\* the previous State; no error is raised.
C17_FallbackExact ==
    [][LET e == lastEvt'
           adv == IF e.kind = "detection_callback"
                  THEN Slice(ANNOUNCE_PREFIX, 0, 2) \o e.data ELSE e.data
       IN  /\ (/\ e.kind \in {"characteristic_callback", "update"}
               /\ e.io = ""
               /\ WellFormedCharacteristic(e.data)
               /\ \/ Notify(e.data)
                  \/ \E t \in Tasks : UpdateRead(t, e.data))
                => /\ e.exc = ""
                   /\ AdoptedOrPrevious(state, state', PyInt(Slice(e.data, 10, 13)).val,
                                        PyInt(Slice(e.data, 13, 15)).val)
           /\ (/\ e.kind \in {"detection_callback_raw", "detection_callback"}
               /\ AcceptedAdvertisement(adv)
               /\ IF e.kind = "detection_callback_raw" THEN AdvertiseRaw(adv, e.rssi)
                  ELSE Advertise((ANNOUNCE_MANUFACTURER :> e.data), e.rssi))
                => /\ e.exc = ""
                   /\ AdoptedOrPrevious(state, state', adv[14], adv[15])]_vars

\* An advertisement with dim level 50 and period 60 was applied: the period
\* is still the 59 of the State before.
C17_Witness ==
    /\ lastEvt.kind = "detection_callback_raw"
    /\ AcceptedAdvertisement(lastEvt.data)
    /\ lastEvt.data[14] = 50 /\ lastEvt.data[15] = 60
    /\ lastEvt.exc = ""
    /\ state.dim_level = 50 /\ state.periodic_venting = 59

\* The first eight bytes of the payload are not the announce prefix (the
\* payload may be shorter than eight bytes).
WrongAnnouncePrefix(data) ==
    \/ Len(data) < 8
    \/ \E i \in 1..8 : data[i] # ANNOUNCE_PREFIX[i]

\* C18: an advertisement whose first eight bytes are not the announce prefix,
\* also one shorter than eight bytes, raises nothing and leaves every field
\* of Device.state, rssi included, as it was; an accepted advertisement sets
\* rssi to the measurement it came with.
C18_PrefixDecides ==
    [][LET e == lastEvt'
           adv == IF e.kind = "detection_callback"
                  THEN Slice(ANNOUNCE_PREFIX, 0, 2) \o e.data ELSE e.data
       IN  (/\ e.kind \in {"detection_callback_raw", "detection_callback"}
            /\ IF e.kind = "detection_callback_raw" THEN AdvertiseRaw(adv, e.rssi)
               ELSE Advertise((ANNOUNCE_MANUFACTURER :> e.data), e.rssi))
            => /\ WrongAnnouncePrefix(adv) => (e.exc = "" /\ state' = state)
               /\ AcceptedAdvertisement(adv) => (e.exc = "" /\ state'.rssi = e.rssi)]_vars

\* An advertisement of full length with a wrong last prefix byte came with
\* rssi -60 before any was accepted: nothing raised, the State is the default
\* one, rssi 0.
C18_Witness ==
    /\ lastEvt.kind = "detection_callback_raw"
    /\ Len(lastEvt.data) = 15
    /\ WrongAnnouncePrefix(lastEvt.data)
    /\ lastEvt.rssi = 0 - 60
    /\ lastEvt.exc = ""
    /\ state = DefaultState

\* C19: an accepted characteristic update (keycode right, numbers well
\* formed), notified or read by update(), leaves after_cooking_fan_speed,
\* periodic_venting_on and rssi as they were in the previous State.
C19_CharacteristicFrame ==
    [][(/\ lastEvt'.kind \in {"characteristic_callback", "update"}
        /\ lastEvt'.io = ""
        /\ WellFormedCharacteristic(lastEvt'.data)
        /\ \/ Notify(lastEvt'.data)
           \/ \E t \in Tasks : UpdateRead(t, lastEvt'.data))
            => /\ state'.after_cooking_fan_speed = state.after_cooking_fan_speed
               /\ state'.periodic_venting_on = state.periodic_venting_on
               /\ state'.rssi = state.rssi]_vars

\* A characteristic update was applied after an advertisement: the three
\* fields still have the advertisement's values, the others the update's.
C19_Witness ==
    /\ lastEvt.kind = "characteristic_callback"
    /\ WellFormedCharacteristic(lastEvt.data)
    /\ lastEvt.exc = ""
    /\ state.after_cooking_fan_speed = 2
    /\ state.periodic_venting_on
    /\ state.rssi = 0 - 60
    /\ state.fan_speed = 3 /\ state.dim_level = 20 /\ state.light_on

\* Every task ends its call of connect(), by a connect error ("failed") or
\* after its scope and its release ("done", which a task reaches only through
\* its scope), and the instance ends Disconnected with the lock free.
NoTaskStuck ==
    <>[](/\ \A t \in Tasks : pc[t] \in {"done", "failed"}
         /\ _client = None /\ _client_count = 0 /\ _client_stack = <<>>
         /\ links = {} /\ ~_lock.locked /\ _lock.waiters = <<>>)

====
